---- MODULE Spec2Model ----
(***************************************************************************)
(* Model of rankine_web.py: the Streamlit "Entropy Calculator".            *)
(*                                                                         *)
(* The script is re-run from its first line on every widget interaction.   *)
(* A run with the Calculate button not pressed leaves W, Q and Delta_S at  *)
(* None and renders no result; a run with the button pressed executes one  *)
(* branch of the if/elif chain, formats the three values and builds the    *)
(* T-S curve with np.linspace.                                             *)
(*                                                                         *)
(* Numbers.  A Python/numpy float is modelled as a record                  *)
(*     [k, q, a]                                                           *)
(* with k = "rat"  : the finite value q (a normalised fraction <<num,den>>)*)
(*      k = "ln"   : the finite value q * ln(a), a > 0, a # 1, q # 0       *)
(*      k = "inf", "ninf", "nan" : the IEEE-754 special values             *)
(*      k = "None" : Python's None.                                        *)
(* Finite arithmetic is exact (no rounding, no overflow to infinity, no    *)
(* distinction between 0.0 and -0.0); the special values follow IEEE-754   *)
(* as numpy applies it (log(0) = -inf, 0 * inf = nan, inf - inf = nan).    *)
(***************************************************************************)
EXTENDS Integers, Sequences, FiniteSets, TLC

(***************************************************************************)
(* Bound of the volume inputs: V_i, V_f range over 0, 0.01, .. MaxVol/100. *)
(* The other numeric inputs range over the widget minimum (where it is 0)  *)
(* and the values of the documented scenarios.                             *)
(***************************************************************************)
MaxVol == 2

(***************************************************************************)
(* Exact rational arithmetic on normalised fractions <<num, den>>, den > 0 *)
(***************************************************************************)
Abs(i) == IF i < 0 THEN -i ELSE i

RECURSIVE GCD(_, _)
GCD(x, y) == IF y = 0 THEN x ELSE GCD(y, x % y)

Rat(num, den) ==
    LET g == GCD(Abs(num), den)
    IN  IF num = 0 THEN <<0, 1>> ELSE <<num \div g, den \div g>>

RatMul(x, y) == Rat(x[1] * y[1], x[2] * y[2])
RatSub(x, y) ==
    LET g == GCD(x[2], y[2])
    IN  Rat(x[1] * (y[2] \div g) - y[1] * (x[2] \div g), (x[2] \div g) * y[2])
RatDiv(x, y) == IF y[1] < 0 THEN Rat(-(x[1] * y[2]), x[2] * (-y[1]))
                ELSE Rat(x[1] * y[2], x[2] * y[1])
RatSgn(x) == IF x[1] > 0 THEN 1 ELSE IF x[1] < 0 THEN -1 ELSE 0

(***************************************************************************)
(* Float values                                                            *)
(***************************************************************************)
One == <<1, 1>>
F(r) == [k |-> "rat", q |-> r, a |-> One]
Ln(c, r) == [k |-> "ln", q |-> c, a |-> r]
Zero == F(<<0, 1>>)
NaN == [k |-> "nan", q |-> <<0, 1>>, a |-> One]
Inf == [k |-> "inf", q |-> <<0, 1>>, a |-> One]
NInf == [k |-> "ninf", q |-> <<0, 1>>, a |-> One]
None == [k |-> "None", q |-> <<0, 1>>, a |-> One]

IsFinite(x) == x.k \in {"rat", "ln"}
IsInfinite(x) == x.k \in {"inf", "ninf"}
IsZero(x) == x.k = "rat" /\ x.q[1] = 0

\* sign of a value that is not nan: -1, 0 or 1
Sgn(x) ==
    CASE x.k = "rat" -> RatSgn(x.q)
      [] x.k = "ln" -> RatSgn(x.q) * (IF x.a[1] > x.a[2] THEN 1 ELSE -1)
      [] x.k = "inf" -> 1
      [] x.k = "ninf" -> -1

Neg(x) ==
    CASE x.k = "rat" -> F(<<-x.q[1], x.q[2]>>)
      [] x.k = "ln" -> Ln(<<-x.q[1], x.q[2]>>, x.a)
      [] x.k = "inf" -> NInf
      [] x.k = "ninf" -> Inf
      [] x.k = "nan" -> NaN

\* x * y
Mul(x, y) ==
    CASE x.k = "nan" \/ y.k = "nan" -> NaN
      [] x.k # "nan" /\ y.k # "nan" /\ (IsInfinite(x) \/ IsInfinite(y)) ->
            IF IsZero(x) \/ IsZero(y) THEN NaN
            ELSE IF Sgn(x) * Sgn(y) > 0 THEN Inf ELSE NInf
      [] x.k = "rat" /\ y.k = "rat" -> F(RatMul(x.q, y.q))
      [] x.k = "rat" /\ y.k = "ln" ->
            IF IsZero(x) THEN Zero ELSE Ln(RatMul(x.q, y.q), y.a)
      [] x.k = "ln" /\ y.k = "rat" ->
            IF IsZero(y) THEN Zero ELSE Ln(RatMul(x.q, y.q), x.a)

\* x - y
Sub(x, y) ==
    CASE x.k = "nan" \/ y.k = "nan" -> NaN
      [] x.k # "nan" /\ y.k # "nan" /\ IsInfinite(x) ->
            IF y.k = x.k THEN NaN ELSE x
      [] x.k # "nan" /\ IsFinite(x) /\ IsInfinite(y) -> Neg(y)
      [] IsFinite(x) /\ y.k = "rat" /\ IsZero(y) -> x
      [] x.k = "rat" /\ y.k = "rat" -> F(RatSub(x.q, y.q))
      [] x.k = "rat" /\ y.k = "ln" /\ IsZero(x) -> Neg(y)
      [] x.k = "ln" /\ y.k = "ln" /\ x.a = y.a ->
            IF x.q = y.q THEN Zero ELSE Ln(RatSub(x.q, y.q), x.a)

\* x + y
Add(x, y) == Sub(x, Neg(y))

\* Python's x != 0 (nan compares unequal to everything)
NeqZero(x) == ~IsZero(x)

\* Python float division x / y of finite rationals; the caller has checked
\* y # 0 (a zero divisor raises ZeroDivisionError)
TrueDiv(x, y) == F(RatDiv(x.q, y.q))

\* np.log of a finite rational
NpLog(x) ==
    IF RatSgn(x.q) < 0 THEN NaN
    ELSE IF RatSgn(x.q) = 0 THEN NInf
    ELSE IF x.q = One THEN Zero
    ELSE Ln(One, x.q)

(***************************************************************************)
(* Program constants and widget domains                                    *)
(***************************************************************************)
R == F(Rat(8314, 1000))
Resolution == 100

ProcessTypes == {"Isothermal", "Isobaric", "Isochoric", "Adiabatic"}
Moles == {F(Rat(1, 1)), F(Rat(2, 1))}
Temps == {Zero, F(Rat(300, 1)), F(Rat(400, 1))}
Vols == {F(Rat(v, 100)) : v \in 0..MaxVol}
CvVals == {Zero, F(Rat(208, 10))}
CpVals == {Zero, F(Rat(291, 10))}

VARIABLES process_type, n, T_i, T_f, V_i, V_f, C_v, C_p,
          W, Q, Delta_S, status, shown_type, S_vals, T_vals, title, memo

inputs == <<process_type, n, T_i, T_f, V_i, V_f, C_v, C_p>>
outputs == <<W, Q, Delta_S, status, shown_type, S_vals, T_vals, title>>
vars == <<process_type, n, T_i, T_f, V_i, V_f, C_v, C_p,
          W, Q, Delta_S, status, shown_type, S_vals, T_vals, title, memo>>

\* Variant: the globals of the previous run survive into the next one.
ScriptGlobalsStale == [W |-> W, Q |-> Q, Delta_S |-> Delta_S, exc |-> ""]
\* W = Q = Delta_S = None at the start of every script run
ScriptGlobals == [W |-> None, Q |-> None, Delta_S |-> None, exc |-> ""]

(***************************************************************************)
(* The four branches.  Each takes the globals g at the start of the branch *)
(* and returns them after it, with exc naming the exception that aborted   *)
(* the branch (if any); an assignment made before the raising line stays.  *)
(***************************************************************************)
\* Variant: the logarithm is taken of T_f / T_i instead of V_f / V_i.
IsothermalBranchRatioT(g) ==
    IF IsZero(T_i) THEN [g EXCEPT !.exc = "ZeroDivisionError"]
    ELSE LET w == Mul(Mul(Mul(n, R), T_i), NpLog(TrueDiv(T_f, T_i)))
         IN  [g EXCEPT !.W = w, !.Q = w,
                       !.Delta_S = Mul(Mul(n, R), NpLog(TrueDiv(T_f, T_i)))]
\* Variant: np.log(V_f) / V_i instead of np.log(V_f / V_i).
IsothermalBranchLogThenDiv(g) ==
    IF IsZero(V_i) THEN [g EXCEPT !.exc = "ZeroDivisionError"]
    ELSE LET l == Mul(NpLog(V_f), TrueDiv(F(One), V_i))
             w == Mul(Mul(Mul(n, R), T_i), l)
         IN  [g EXCEPT !.W = w, !.Q = w, !.Delta_S = Mul(Mul(n, R), l)]
\* lines 79-81
IsothermalBranch(g) ==
    IF IsZero(V_i) THEN [g EXCEPT !.exc = "ZeroDivisionError"]
    ELSE LET w == Mul(Mul(Mul(n, R), T_i), NpLog(TrueDiv(V_f, V_i)))
         IN  [g EXCEPT !.W = w, !.Q = w,
                       !.Delta_S = Mul(Mul(n, R), NpLog(TrueDiv(V_f, V_i)))]

\* Variant: the placeholder assignment W = 0 is missing.
IsobaricBranchNoW(g) ==
    LET g1 == [g EXCEPT !.Q = Mul(Mul(n, C_p), Sub(T_f, T_i))]
    IN  IF IsZero(T_i) THEN [g1 EXCEPT !.exc = "ZeroDivisionError"]
        ELSE [g1 EXCEPT !.Delta_S = Mul(Mul(n, C_p), NpLog(TrueDiv(T_f, T_i)))]
\* lines 83-85
IsobaricBranch(g) ==
    LET g1 == [g EXCEPT !.W = Zero,
                        !.Q = Mul(Mul(n, C_p), Sub(T_f, T_i))]
    IN  IF IsZero(T_i) THEN [g1 EXCEPT !.exc = "ZeroDivisionError"]
        ELSE [g1 EXCEPT !.Delta_S = Mul(Mul(n, C_p), NpLog(TrueDiv(T_f, T_i)))]

\* Variant: Q = n * C_v * T_f instead of n * C_v * (T_f - T_i).
IsochoricBranchHeatTf(g) ==
    LET g1 == [g EXCEPT !.W = Zero,
                        !.Q = Mul(Mul(n, C_v), T_f)]
    IN  IF IsZero(T_i) THEN [g1 EXCEPT !.exc = "ZeroDivisionError"]
        ELSE [g1 EXCEPT !.Delta_S = Mul(Mul(n, C_v), NpLog(TrueDiv(T_f, T_i)))]
\* lines 87-89
IsochoricBranch(g) ==
    LET g1 == [g EXCEPT !.W = Zero,
                        !.Q = Mul(Mul(n, C_v), Sub(T_f, T_i))]
    IN  IF IsZero(T_i) THEN [g1 EXCEPT !.exc = "ZeroDivisionError"]
        ELSE [g1 EXCEPT !.Delta_S = Mul(Mul(n, C_v), NpLog(TrueDiv(T_f, T_i)))]

\* Variant: Q is computed as the heat of an isochoric process.
AdiabaticBranchHeat(g) ==
    [g EXCEPT !.Q = Mul(Mul(n, C_v), Sub(T_f, T_i)),
              !.W = Mul(Mul(n, C_v), Sub(T_i, T_f)),
              !.Delta_S = Zero]
\* Variant: W = n * C_v * (T_f - T_i), the sign of the work is reversed.
AdiabaticBranchSwapped(g) ==
    [g EXCEPT !.Q = Zero,
              !.W = Mul(Mul(n, C_v), Sub(T_f, T_i)),
              !.Delta_S = Zero]
\* lines 91-93
AdiabaticBranch(g) ==
    [g EXCEPT !.Q = Zero,
              !.W = Mul(Mul(n, C_v), Sub(T_i, T_f)),
              !.Delta_S = Zero]

\* the if/elif chain under st.button("Calculate")
Branch(g) ==
    CASE process_type = "Isothermal" -> IsothermalBranch(g)
      [] process_type = "Isobaric" -> IsobaricBranch(g)
      [] process_type = "Isochoric" -> IsochoricBranch(g)
      [] process_type = "Adiabatic" -> AdiabaticBranch(g)

\* f"{x:.2f}" raises TypeError on None
Formattable(x) == x.k # "None"

(***************************************************************************)
(* np.linspace(start, stop, num), endpoint=True, num > 1                   *)
(***************************************************************************)
\* Variant: endpoint=False, the stop value is not part of the sequence.
LinspaceNoEndpoint(start, stop, num) ==
    LET delta == Sub(stop, start)
        step == Mul(delta, F(Rat(1, num)))
    IN  [i \in 1..num |-> Add(Mul(F(Rat(i - 1, 1)), step), start)]
Linspace(start, stop, num) ==
    LET div == num - 1
        delta == Sub(stop, start)
        step == Mul(delta, F(Rat(1, div)))
        y(i) == IF step = Zero
                THEN Add(Mul(F(Rat(i - 1, div)), delta), start)
                ELSE Add(Mul(F(<<i - 1, 1>>), step), start)
    IN  [i \in 1..num |-> IF i = num THEN stop ELSE y(i)]

\* S_vals of the T-S diagram
EntropyAxis(ds) ==
    IF NeqZero(ds) THEN Linspace(Zero, ds, Resolution) ELSE <<Zero, Zero>>

\* f"{process_type} Process T-S Diagram"
DiagramTitle(p) == <<p, " Process T-S Diagram">>

\* T_vals of the T-S diagram
TemperatureAxis(S) == Linspace(T_i, T_f, Len(S))

Init ==
    /\ process_type = "Isothermal"
    /\ n = F(Rat(1, 1))
    /\ T_i = F(Rat(300, 1))
    /\ T_f = F(Rat(400, 1))
    /\ V_i = F(Rat(1, 100))
    /\ V_f = F(Rat(2, 100))
    /\ C_v = F(Rat(208, 10))
    /\ C_p = F(Rat(291, 10))
    /\ W = None /\ Q = None /\ Delta_S = None
    /\ status = "idle"
    /\ shown_type = ""
    /\ S_vals = <<>> /\ T_vals = <<>>
    /\ title = <<>>
    /\ memo = [set |-> FALSE, other |-> FALSE, inp |-> <<>>, out |-> <<>>]

(***************************************************************************)
(* A script run in which st.button("Calculate") returns False: the widget  *)
(* values are read, W = Q = Delta_S = None, nothing else is rendered.      *)
(***************************************************************************)
RunIdle ==
    LET g == ScriptGlobals
    IN  /\ W' = g.W /\ Q' = g.Q /\ Delta_S' = g.Delta_S
        /\ status' = "idle"
        /\ shown_type' = ""
        /\ S_vals' = <<>> /\ T_vals' = <<>>
        /\ title' = <<>>
        /\ UNCHANGED memo

ChangeProcessType ==
    /\ \E p \in ProcessTypes \ {process_type} : process_type' = p
    /\ UNCHANGED <<n, T_i, T_f, V_i, V_f, C_v, C_p>>
    /\ RunIdle

ChangeN ==
    /\ \E v \in Moles \ {n} : n' = v
    /\ UNCHANGED <<process_type, T_i, T_f, V_i, V_f, C_v, C_p>>
    /\ RunIdle

ChangeTi ==
    /\ \E v \in Temps \ {T_i} : T_i' = v
    /\ UNCHANGED <<process_type, n, T_f, V_i, V_f, C_v, C_p>>
    /\ RunIdle

ChangeTf ==
    /\ \E v \in Temps \ {T_f} : T_f' = v
    /\ UNCHANGED <<process_type, n, T_i, V_i, V_f, C_v, C_p>>
    /\ RunIdle

ChangeVi ==
    /\ \E v \in Vols \ {V_i} : V_i' = v
    /\ UNCHANGED <<process_type, n, T_i, T_f, V_f, C_v, C_p>>
    /\ RunIdle

ChangeVf ==
    /\ \E v \in Vols \ {V_f} : V_f' = v
    /\ UNCHANGED <<process_type, n, T_i, T_f, V_i, C_v, C_p>>
    /\ RunIdle

ChangeCv ==
    /\ \E v \in CvVals \ {C_v} : C_v' = v
    /\ UNCHANGED <<process_type, n, T_i, T_f, V_i, V_f, C_p>>
    /\ RunIdle

ChangeCp ==
    /\ \E v \in CpVals \ {C_p} : C_p' = v
    /\ UNCHANGED <<process_type, n, T_i, T_f, V_i, V_f, C_v>>
    /\ RunIdle

(***************************************************************************)
(* A script run in which st.button("Calculate") returns True.              *)
(***************************************************************************)
Calculate ==
    LET g == Branch(ScriptGlobals)
        ok == g.exc = ""
        fmt == ok /\ Formattable(g.W) /\ Formattable(g.Q)
                  /\ Formattable(g.Delta_S)
        S == EntropyAxis(g.Delta_S)
    IN  /\ W' = g.W /\ Q' = g.Q /\ Delta_S' = g.Delta_S
        /\ status' = IF ~ok THEN g.exc
                     ELSE IF ~fmt THEN "TypeError" ELSE "shown"
        /\ shown_type' = IF ok THEN process_type ELSE ""
        /\ S_vals' = IF fmt THEN S ELSE <<>>
        /\ T_vals' = IF fmt THEN TemperatureAxis(S) ELSE <<>>
        /\ title' = IF fmt THEN DiagramTitle(process_type) ELSE <<>>
        /\ memo' = IF memo.set /\ memo.inp # inputs
                   THEN [memo EXCEPT !.other = TRUE] ELSE memo
        /\ UNCHANGED inputs

Next ==
    \/ ChangeProcessType
    \/ ChangeN
    \/ ChangeTi
    \/ ChangeTf
    \/ ChangeVi
    \/ ChangeVf
    \/ ChangeCv
    \/ ChangeCp
    \/ Calculate

Spec == Init /\ [][Next]_vars

(***************************************************************************)
(* Observer used for the determinism property.  Remember records the input *)
(* and the outcome of one finished calculation, and Calculate notes in     *)
(* memo.other that a calculation with another input has run since.  The    *)
(* observer is not part of the program and never changes its state; the    *)
(* program's steps under SpecPure are exactly those of Spec.  To keep the  *)
(* product with the observer finite and small, only calculations on the    *)
(* inputs of Probes are recorded: one that raises after W and Q are        *)
(* assigned, one that shows a full curve and one that shows the two-point  *)
(* curve.                                                                  *)
(***************************************************************************)
DefaultInputs ==
    [process_type |-> "Isothermal", n |-> F(<<1, 1>>),
     T_i |-> F(<<300, 1>>), T_f |-> F(<<400, 1>>),
     V_i |-> F(<<1, 100>>), V_f |-> F(<<1, 50>>),
     C_v |-> F(<<104, 5>>), C_p |-> F(<<291, 10>>)]

AsInputs(r) ==
    <<r.process_type, r.n, r.T_i, r.T_f, r.V_i, r.V_f, r.C_v, r.C_p>>

Probes ==
    { AsInputs([DefaultInputs EXCEPT !.process_type = "Isobaric",
                                     !.T_i = Zero]),
      AsInputs(DefaultInputs),
      AsInputs([DefaultInputs EXCEPT !.process_type = "Adiabatic"]) }

Remember ==
    /\ status # "idle"
    /\ ~memo.set
    /\ inputs \in Probes
    /\ memo' = [set |-> TRUE, other |-> FALSE, inp |-> inputs, out |-> outputs]
    /\ UNCHANGED <<inputs, outputs>>

NextPure ==
    \/ Next
    \/ Remember

SpecPure == Init /\ [][NextPure]_vars

(***************************************************************************)
(* Properties                                                              *)
(***************************************************************************)
Pos(x) == x.k = "rat" /\ RatSgn(x.q) > 0
Calculated == status # "idle"
IsSpecial(x) == x.k \in {"nan", "inf", "ninf"}

\* the positivity precondition of the selected process
Precondition ==
    CASE process_type = "Isothermal" -> Pos(V_i) /\ Pos(V_f)
      [] process_type \in {"Isobaric", "Isochoric"} -> Pos(T_i) /\ Pos(T_f)
      [] process_type = "Adiabatic" -> TRUE

\* C1: a calculation whose positivity precondition is violated fails with
\* InvalidInputError and shows no NaN or infinite W, Q or Delta_S.
C1_InvalidInputRejected ==
    (Calculated /\ ~Precondition) =>
        /\ status = "InvalidInputError"
        /\ ~IsSpecial(W) /\ ~IsSpecial(Q) /\ ~IsSpecial(Delta_S)

\* C2: an Adiabatic calculation always completes with Q = 0 and
\* Delta_S = 0, whatever the other inputs are.
C2_AdiabaticIsentropic ==
    (Calculated /\ process_type = "Adiabatic") =>
        status = "shown" /\ Q = Zero /\ Delta_S = Zero
C2_Witness ==
    /\ status = "shown" /\ process_type = "Adiabatic"
    /\ IsZero(V_i) /\ IsZero(T_i) /\ ~IsZero(T_f) /\ ~IsZero(C_v)
    /\ ~IsZero(W)

\* C3: a calculation whose precondition holds never fails; inputs the
\* selected process does not use cannot make it fail.
C3_FailsOnlyOnPrecondition ==
    (Calculated /\ Precondition) => status = "shown"
C3_Witness ==
    /\ status = "shown" /\ process_type = "Isothermal"
    /\ IsZero(T_i) /\ IsZero(T_f) /\ Pos(V_i) /\ Pos(V_f)

\* C4: an Isothermal calculation with V_f = V_i > 0 gives
\* W = 0, Q = 0 and Delta_S = 0 for every n and T_i.
C4_IsothermalNoVolumeChange ==
    (Calculated /\ process_type = "Isothermal" /\ Pos(V_i) /\ V_f = V_i) =>
        status = "shown" /\ W = Zero /\ Q = Zero /\ Delta_S = Zero
C4_Witness ==
    /\ status = "shown" /\ process_type = "Isothermal"
    /\ Pos(V_i) /\ V_f = V_i /\ V_i # F(One)
    /\ Pos(T_i) /\ T_f # T_i /\ n # F(One)

\* C5: an Isobaric or Isochoric calculation with T_f = T_i > 0 gives
\* Q = 0 and Delta_S = 0 for every n, C_p and C_v.
C5_NoTemperatureChange ==
    (/\ Calculated /\ process_type \in {"Isobaric", "Isochoric"}
     /\ Pos(T_i) /\ T_f = T_i) =>
        status = "shown" /\ Q = Zero /\ Delta_S = Zero
C5_Witness ==
    /\ status = "shown" /\ process_type = "Isochoric"
    /\ Pos(T_i) /\ T_f = T_i /\ Pos(C_v) /\ n # F(One)

\* C6: when Delta_S = 0 the curve has exactly two points, both at
\* entropy 0, with temperatures T_i then T_f.
C6_DegenerateCurve ==
    (status = "shown" /\ ~NeqZero(Delta_S)) =>
        /\ S_vals = <<Zero, Zero>>
        /\ T_vals = <<T_i, T_f>>
C6_Witness ==
    /\ status = "shown" /\ ~NeqZero(Delta_S)
    /\ process_type = "Adiabatic" /\ T_i # T_f /\ Len(T_vals) = 2
C6_WitnessEqualT ==
    /\ status = "shown" /\ ~NeqZero(Delta_S)
    /\ process_type = "Isobaric" /\ T_i = T_f /\ Len(T_vals) = 2

\* x < y for values that are both numbers
Less(x, y) ==
    /\ x.k # "nan" /\ y.k # "nan"
    /\ Sub(y, x).k # "nan"
    /\ Sgn(Sub(y, x)) > 0

\* C7: when Delta_S # 0 the curve has exactly Resolution points; the
\* entropy values start at 0, end at Delta_S, are uniformly spaced and
\* monotonically ordered; the temperatures start at T_i, end at T_f and are
\* paired index-for-index with the entropy values.
C7_FullCurve ==
    (status = "shown" /\ NeqZero(Delta_S)) =>
        /\ Len(S_vals) = Resolution
        /\ Len(T_vals) = Len(S_vals)
        /\ S_vals[1] = Zero
        /\ S_vals[Resolution] = Delta_S
        /\ T_vals[1] = T_i
        /\ T_vals[Resolution] = T_f
        /\ \A i \in 1..(Resolution - 1) :
              /\ Sub(S_vals[i + 1], S_vals[i]) = Sub(S_vals[2], S_vals[1])
              /\ \/ Less(Zero, Delta_S) /\ Less(S_vals[i], S_vals[i + 1])
                 \/ Less(Delta_S, Zero) /\ Less(S_vals[i + 1], S_vals[i])

\* C8: a calculation with the same input as a remembered one gives the same
\* W, Q, Delta_S, status and curve, whatever was calculated in between.
C8_Deterministic ==
    (memo.set /\ Calculated /\ memo.inp = inputs) => outputs = memo.out
C8_Witness ==
    /\ memo.set /\ memo.other /\ memo.inp = inputs
    /\ status = "shown" /\ NeqZero(Delta_S)

\* C9: the non-logarithmic outputs equal the per-process table:
\* Isothermal Q = W; Isobaric W = 0, Q = n C_p (T_f - T_i); Isochoric W = 0,
\* Q = n C_v (T_f - T_i); Adiabatic W = n C_v (T_i - T_f), which is -2080
\* for n = 1, T_i = 300, T_f = 400, C_v = 20.8.
C9_TableOutputs ==
    /\ (Calculated /\ process_type = "Isothermal") => Q = W
    /\ (Calculated /\ process_type = "Isobaric") =>
          /\ W = Zero
          /\ Q = F(RatMul(RatMul(n.q, C_p.q), RatSub(T_f.q, T_i.q)))
    /\ (Calculated /\ process_type = "Isochoric") =>
          /\ W = Zero
          /\ Q = F(RatMul(RatMul(n.q, C_v.q), RatSub(T_f.q, T_i.q)))
    /\ (Calculated /\ process_type = "Adiabatic") =>
          /\ W = F(RatMul(RatMul(n.q, C_v.q), RatSub(T_i.q, T_f.q)))
          /\ (/\ n = F(<<1, 1>>) /\ T_i = F(<<300, 1>>)
              /\ T_f = F(<<400, 1>>) /\ C_v = F(<<104, 5>>))
                 => W = F(<<-2080, 1>>)
C9_Witness ==
    /\ status = "shown" /\ process_type = "Adiabatic"
    /\ n = F(<<1, 1>>) /\ T_i = F(<<300, 1>>)
    /\ T_f = F(<<400, 1>>) /\ C_v = F(<<104, 5>>)
    /\ Sgn(W) < 0

\* C10: before Calculate is pressed W, Q and Delta_S are None and nothing
\* is rendered; a pressed run never formats a None, and a rendered result
\* has all three assigned and carries the selected process type in the
\* result text and in the diagram title.
C10_AssignedBeforeUse ==
    /\ status = "idle" =>
          /\ W = None /\ Q = None /\ Delta_S = None
          /\ shown_type = "" /\ S_vals = <<>> /\ T_vals = <<>>
          /\ title = <<>>
    /\ status # "TypeError"
    /\ status = "shown" =>
          /\ W # None /\ Q # None /\ Delta_S # None
          /\ shown_type = process_type
          /\ title = <<process_type, " Process T-S Diagram">>
C10_Witness ==
    /\ status = "shown" /\ process_type = "Isobaric"
    /\ W = Zero /\ Q # None /\ Delta_S # None

====
